---- MODULE Spec2Model ----
(***************************************************************************)
(* A model of ApiRequest.py: the rate-limited, retrying detail download    *)
(* (make_request, download_ids), the identifier cache (load_id_list) and   *)
(* the incremental export of detail records to two CSV files              *)
(* (export_data, unpack_credits).                                          *)
(*                                                                         *)
(* Text (what str(), json.dumps and to_csv produce) is a sequence of       *)
(* atoms; an atom is a TLA+ string that stands for its characters: one     *)
(* character ("7", ",", a quote) or a whole word that is never taken       *)
(* apart (a key such as "name", a value such as "/x.jpg").                 *)
(* Time is counted in ticks of 1/MAX_DOWNLOADS_PER_SECOND second.          *)
(***************************************************************************)
EXTENDS Integers, Sequences, FiniteSets, TLC

\* ------------------------------------------------------------ constants
DOWNLOADS_PER_DISK_WRITE == 40
MAX_DOWNLOADS_PER_SECOND == 4
MAX_ATTEMPTS == 3
RATE_LIMITER_DELAY_SECONDS == 10
RATE_LIMIT_EXCEEDED_STATUS_CODE == 429
SUCCESSFUL_CALL_STATUS_CODE == 200
\* the statuses that are neither 200 nor 429
OtherStatuses == {500}

CATEGORIES == <<"movie">>
CATEGORY_SPECIFIC_CALLS == [movie |-> "&append_to_response=credits,keywords"]
JSON_COLUMNS ==
    {"genres", "keywords", "production_countries", "production_companies",
     "spoken_languages"}
KEYS_TO_DROP ==
    {"adult", "backdrop_path", "belongs_to_collection", "imdb_id",
     "poster_path", "profile_path", "video"}

\* ------------------------------------------------------------ bounds
\* longest identifier list of an ordinary run, and the identifiers for
\* which the server may answer anything
MaxIds == 2
\* how many times the program is started
MaxRuns == 2
\* records handed to export_data over one sequence of direct calls
MaxRecords == 3
\* the identifiers of the cached list of a long run: more than one batch
LongIds == 42

\* ------------------------------------------------------------ values
\* Python / JSON values, tagged so that any two can be compared.
JNull == [t |-> "null"]
NaN == [t |-> "nan"]
JInt(n) == [t |-> "int", n |-> n]
\* a float with an integral value (what an int becomes in a float64 column)
JFloat(n) == [t |-> "float", n |-> n]
JStr(s) == [t |-> "str", s |-> s]
JBool(b) == [t |-> "bool", b |-> b]
JList(xs) == [t |-> "list", items |-> xs]
\* a dict: its (key, value) pairs in insertion order, keys distinct
JObj(ps) == [t |-> "obj", pairs |-> ps]
KV(k, v) == [k |-> k, v |-> v]

Keys(o) == {o.pairs[i].k : i \in 1..Len(o.pairs)}
HasKey(o, k) == k \in Keys(o)
Get(o, k) == o.pairs[CHOOSE i \in 1..Len(o.pairs) : o.pairs[i].k = k].v

\* {k: v for k, v in d.items() if k not in drop}
SelectPairs(ps, drop) ==
    LET Keep(p) == p.k \notin drop
    IN  SelectSeq(ps, Keep)

\* Python truthiness of a parsed JSON body (if not current_data)
Truthy(v) ==
    CASE v.t = "null" -> FALSE
      [] v.t = "obj" -> v.pairs # <<>>
      [] v.t = "list" -> v.items # <<>>
      [] v.t = "str" -> v.s # <<>>
      [] v.t \in {"int", "float"} -> v.n # 0
      [] v.t = "bool" -> v.b
      [] OTHER -> TRUE

\* ------------------------------------------------------------ text
DigitChars == <<"0", "1", "2", "3", "4", "5", "6", "7", "8", "9">>
IsDigit(c) == \E d \in 1..10 : DigitChars[d] = c
DigitValue(c) == (CHOOSE d \in 1..10 : DigitChars[d] = c) - 1

RECURSIVE NatText(_)
NatText(n) ==
    IF n < 10 THEN <<DigitChars[n + 1]>>
    ELSE NatText(n \div 10) \o <<DigitChars[(n % 10) + 1]>>
IntText(n) == IF n < 0 THEN <<"-">> \o NatText(-n) ELSE NatText(n)

RECURSIVE TextNat(_)
TextNat(s) ==
    IF s = <<>> THEN 0
    ELSE 10 * TextNat(SubSeq(s, 1, Len(s) - 1)) + DigitValue(s[Len(s)])

\* str(x)
PyStr(v) ==
    CASE v.t = "int" -> IntText(v.n)
      [] v.t = "float" -> IntText(v.n) \o <<".", "0">>
      [] v.t = "str" -> v.s
      [] v.t = "null" -> <<"None">>
      [] v.t = "nan" -> <<"nan">>
      [] v.t = "bool" -> IF v.b THEN <<"True">> ELSE <<"False">>
      [] OTHER -> <<"<object>">>

\* str.isnumeric(): non-empty and every character a digit
IsNumeric(s) == s # <<>> /\ \A i \in 1..Len(s) : IsDigit(s[i])

RECURSIVE JsonDumps(_), DumpItems(_), DumpPairs(_)
\* json.dumps(v), with the default separators ", " and ": "
JsonDumps(v) ==
    CASE v.t = "null" -> <<"null">>
      [] v.t = "nan" -> <<"NaN">>
      [] v.t = "bool" -> IF v.b THEN <<"true">> ELSE <<"false">>
      [] v.t = "int" -> IntText(v.n)
      [] v.t = "float" -> IntText(v.n) \o <<".", "0">>
      [] v.t = "str" -> <<"\"">> \o v.s \o <<"\"">>
      [] v.t = "list" -> <<"[">> \o DumpItems(v.items) \o <<"]">>
      [] v.t = "obj" -> <<"{">> \o DumpPairs(v.pairs) \o <<"}">>
DumpItems(xs) ==
    IF xs = <<>> THEN <<>>
    ELSE IF Len(xs) = 1 THEN JsonDumps(xs[1])
    ELSE JsonDumps(xs[1]) \o <<",", " ">> \o DumpItems(Tail(xs))
DumpPairs(ps) ==
    IF ps = <<>> THEN <<>>
    ELSE LET one == <<"\"", ps[1].k, "\"", ":", " ">> \o JsonDumps(ps[1].v)
         IN  IF Len(ps) = 1 THEN one
             ELSE one \o <<",", " ">> \o DumpPairs(Tail(ps))

\* json.loads: a recursive-descent reader of the text json.dumps writes.
\* Each reader returns the value read and the index after it.
ParseError == [t |-> "error"]
RECURSIVE DigitsEnd(_, _)
DigitsEnd(s, i) == IF i <= Len(s) /\ IsDigit(s[i]) THEN DigitsEnd(s, i + 1) ELSE i
RECURSIVE QuoteAt(_, _)
QuoteAt(s, i) == IF i > Len(s) \/ s[i] = "\"" THEN i ELSE QuoteAt(s, i + 1)
ParseNumber(s, i) ==
    LET neg == s[i] = "-"
        b == IF neg THEN i + 1 ELSE i
        e == DigitsEnd(s, b)
        n == TextNat(SubSeq(s, b, e - 1))
        m == IF neg THEN 0 - n ELSE n
    IN  IF e = b THEN [v |-> ParseError, i |-> Len(s) + 1]
        ELSE IF e + 1 <= Len(s) /\ s[e] = "." /\ s[e + 1] = "0"
             THEN [v |-> JFloat(m), i |-> e + 2]
        ELSE [v |-> JInt(m), i |-> e]
ParseString(s, i) ==
    LET q == QuoteAt(s, i + 1)
    IN  [v |-> JStr(SubSeq(s, i + 1, q - 1)), i |-> q + 1]
\* the index after an optional ", "
AfterSep(s, i) ==
    IF i + 1 <= Len(s) /\ s[i] = "," /\ s[i + 1] = " " THEN i + 2 ELSE i
RECURSIVE ParseValue(_, _), ParseItems(_, _, _), ParsePairs(_, _, _)
ParseValue(s, i) ==
    IF i > Len(s) THEN [v |-> ParseError, i |-> i]
    ELSE CASE s[i] = "null" -> [v |-> JNull, i |-> i + 1]
           [] s[i] = "NaN" -> [v |-> NaN, i |-> i + 1]
           [] s[i] = "true" -> [v |-> JBool(TRUE), i |-> i + 1]
           [] s[i] = "false" -> [v |-> JBool(FALSE), i |-> i + 1]
           [] s[i] = "\"" -> ParseString(s, i)
           [] s[i] = "[" -> ParseItems(s, i + 1, <<>>)
           [] s[i] = "{" -> ParsePairs(s, i + 1, <<>>)
           [] OTHER -> ParseNumber(s, i)
ParseItems(s, i, acc) ==
    IF i > Len(s) THEN [v |-> ParseError, i |-> i]
    ELSE IF s[i] = "]" THEN [v |-> JList(acc), i |-> i + 1]
    ELSE LET r == ParseValue(s, i)
         IN  ParseItems(s, AfterSep(s, r.i), Append(acc, r.v))
ParsePairs(s, i, acc) ==
    IF i + 4 > Len(s) /\ (i > Len(s) \/ s[i] # "}")
    THEN [v |-> ParseError, i |-> Len(s) + 1]
    ELSE IF s[i] = "}" THEN [v |-> JObj(acc), i |-> i + 1]
    ELSE LET r == ParseValue(s, i + 5)
         IN  ParsePairs(s, AfterSep(s, r.i), Append(acc, KV(s[i + 1], r.v)))
JsonLoads(s) ==
    LET r == ParseValue(s, 1)
    IN  IF r.i = Len(s) + 1 THEN r.v ELSE ParseError

\* ------------------------------------------------------------ tables
\* A DataFrame: its column labels in order and its rows, each a function
\* from the labels to values.  A CSV file: whether it exists and its lines;
\* a line is a header (the labels) or a row (one text per column).
NoFile == [exists |-> FALSE, lines |-> <<>>]
HeaderLine(cols) == [kind |-> "header", cells |-> [i \in 1..Len(cols) |-> <<cols[i]>>]]
IsHeader(line) == line.kind = "header"
IsRow(line) == line.kind = "row"
RowLines(file) == SelectSeq(file.lines, IsRow)
HeaderCount(file) == Len(SelectSeq(file.lines, IsHeader))

SeqToSet(s) == {s[i] : i \in 1..Len(s)}
\* the keys the records of this model use, in the order of the labels of a
\* table made from a list of dicts (sorted)
KnownKeys ==
    <<"adult", "credits", "genres", "id", "imdb_id", "keywords", "original_title",
      "production_companies", "production_countries", "spoken_languages", "title">>
\* the labels of pd.DataFrame(entries): every key some entry has
ColumnsOf(entries) ==
    LET Used(c) == \E i \in 1..Len(entries) : HasKey(entries[i], c)
    IN  SelectSeq(KnownKeys, Used)

IsNull(v) == v.t \in {"null", "nan"}
IsNumber(v) == v.t \in {"int", "float"}
\* the value of a record at a label, NaN when the record lacks the key
Cell(e, c) == IF HasKey(e, c) THEN Get(e, c) ELSE NaN
\* pandas' dtype inference (maybe_convert_objects): a column of numbers in
\* which a value is missing or None becomes float64, every int a float
FloatColumn(entries, c) ==
    /\ \A i \in 1..Len(entries) : IsNumber(Cell(entries[i], c)) \/ IsNull(Cell(entries[i], c))
    /\ \E i \in 1..Len(entries) : IsNumber(Cell(entries[i], c))
    /\ \E i \in 1..Len(entries) :
          IsNull(Cell(entries[i], c)) \/ Cell(entries[i], c).t = "float"
Coerced(v) == IF v.t = "int" THEN JFloat(v.n) ELSE IF IsNull(v) THEN NaN ELSE v
\* pd.DataFrame(all_entries)
DataFrame(entries) ==
    LET cols == ColumnsOf(entries)
        floats == {c \in SeqToSet(cols) : FloatColumn(entries, c)}
    IN  [columns |-> cols,
         rows |-> [i \in 1..Len(entries) |->
                     [c \in SeqToSet(cols) |->
                        IF c \in floats THEN Coerced(Cell(entries[i], c))
                        ELSE Cell(entries[i], c)]]]

Without(cols, drop) ==
    LET Keep(c) == c \notin drop
    IN  SelectSeq(cols, Keep)
\* df[[x for x in df.columns if x not in drop]]
DropColumns(df, drop) ==
    LET cols == Without(df.columns, drop)
    IN  [columns |-> cols,
         rows |-> [i \in 1..Len(df.rows) |-> [c \in SeqToSet(cols) |-> df.rows[i][c]]]]
HasColumn(df, c) == c \in SeqToSet(df.columns)

\* the text to_csv writes for one value
CsvCell(v) == IF IsNull(v) THEN <<>> ELSE PyStr(v)
ToCsvOverwriting(df, file, needs_header) ==
    [exists |-> TRUE,
     lines |-> (IF needs_header THEN <<HeaderLine(df.columns)>> ELSE <<>>)
               \o [i \in 1..Len(df.rows) |->
                     [kind |-> "row",
                      cells |-> [j \in 1..Len(df.columns) |->
                                   CsvCell(df.rows[i][df.columns[j]])]]]]
\* df.to_csv(file, index=False, mode='a+', header=needs_header)
ToCsv(df, file, needs_header) ==
    [exists |-> TRUE,
     lines |-> file.lines
               \o (IF needs_header THEN <<HeaderLine(df.columns)>> ELSE <<>>)
               \o [i \in 1..Len(df.rows) |->
                     [kind |-> "row",
                      cells |-> [j \in 1..Len(df.columns) |->
                                   CsvCell(df.rows[i][df.columns[j]])]]]]
\* pd.read_csv(file, usecols=[c], dtype=object)[c].values.tolist(): the
\* texts of column c, the first line being taken for the header
ColumnIndex(file, c) == CHOOSE j \in 1..Len(file.lines[1].cells) : file.lines[1].cells[j] = <<c>>
ReadCsvColumn(file, c) ==
    [i \in 1..(Len(file.lines) - 1) |-> file.lines[i + 1].cells[ColumnIndex(file, c)]]

\* ------------------------------------------------------------ export
IsObj(v) == v.t = "obj"
IsObjList(v) == v.t = "list" /\ \A i \in 1..Len(v.items) : IsObj(v.items[i])
\* x[column] if column in x else []
SubField(x, column) == IF HasKey(x, column) THEN Get(x, column) ELSE JList(<<>>)
StripNothing(x) == x
\* [{k: v for k, v in i.items() if k not in {'profile_path'}} for i in x]
StripProfilePath(x) ==
    JList([i \in 1..Len(x.items) |-> JObj(SelectPairs(x.items[i].pairs, {"profile_path"}))])
CreditsRowWithoutId(r) ==
    [c \in {"movie_id", "title", "cast", "crew"} |->
        CASE c = "movie_id" -> r["title"]
          [] c = "title" -> r["title"]
          [] OTHER -> JStr(JsonDumps(StripProfilePath(SubField(r["credits"], c))))]
\* one row of the credits table
CreditsRow(r) ==
    [c \in {"movie_id", "title", "cast", "crew"} |->
        CASE c = "movie_id" -> r["id"]
          [] c = "title" -> r["title"]
          [] OTHER -> JStr(JsonDumps(StripProfilePath(SubField(r["credits"], c))))]
\* unpack_credits fails on a missing column (KeyError) and on a credits
\* value that is no dict of lists of dicts (TypeError, AttributeError)
UnpackCreditsRaises(df) ==
    \/ ~({"credits", "id", "title"} \subseteq SeqToSet(df.columns))
    \/ \E i \in 1..Len(df.rows) :
          \/ ~IsObj(df.rows[i]["credits"])
          \/ \E c \in {"cast", "crew"} : ~IsObjList(SubField(df.rows[i]["credits"], c))
\* unpack_credits(df): the table without its credits column, and the
\* credits table
unpack_credits(df) ==
    [df |-> DropColumns(df, {"credits"}),
     credits |-> [columns |-> <<"movie_id", "title", "cast", "crew">>,
                  rows |-> [i \in 1..Len(df.rows) |-> CreditsRow(df.rows[i])]]]

NullIdCount(df) == Cardinality({i \in 1..Len(df.rows) : IsNull(df.rows[i]["id"])})
\* df[~df.id.isnull()]
DropNullIds(df) ==
    LET Keep(r) == ~IsNull(r["id"])
    IN  [df EXCEPT !.rows = SelectSeq(df.rows, Keep)]
\* df[df.id.apply(lambda x: str(x).isnumeric())].  On a table without rows
\* apply returns an empty Series of the column's dtype; when that is not
\* taken for a boolean mask it selects columns, none, instead of rows.
KeepNumericIds(df, mask_is_boolean) ==
    LET Keep(r) == IsNumeric(PyStr(r["id"]))
    IN  IF df.rows = <<>> /\ ~mask_is_boolean THEN [columns |-> <<>>, rows |-> <<>>]
        ELSE [df EXCEPT !.rows = SelectSeq(df.rows, Keep)]
\* lines 142-147: the table of the batch, filtered
RetainedTable(all_entries, mask_is_boolean) ==
    KeepNumericIds(DropNullIds(DropColumns(DataFrame(all_entries), KEYS_TO_DROP)),
                   mask_is_boolean)
\* lines 150-153 on the primary table
UnwrapKeywords(df) ==
    [df EXCEPT !.rows = [i \in 1..Len(df.rows) |->
        [df.rows[i] EXCEPT !["keywords"] = SubField(df.rows[i]["keywords"], "keywords")]]]
SerializeJsonColumns(df) ==
    [df EXCEPT !.rows = [i \in 1..Len(df.rows) |->
        [c \in SeqToSet(df.columns) |->
            IF c \in JSON_COLUMNS THEN JStr(JsonDumps(df.rows[i][c])) ELSE df.rows[i][c]]]]
\* whether export_data raises before it writes (lines 142-153)
ExportRaises(all_entries, mask_is_boolean) ==
    \/ ~HasColumn(DataFrame(all_entries), "id")
    \/ LET df == RetainedTable(all_entries, mask_is_boolean)
       IN  \/ UnpackCreditsRaises(df)
           \/ ~(JSON_COLUMNS \subseteq SeqToSet(df.columns))
           \/ \E i \in 1..Len(df.rows) : ~IsObj(df.rows[i]["keywords"])
NeedsHeaderAlways(data) == TRUE
\* needs_header = not(os.path.exists(category + '_data.csv'))
NeedsHeader(data) == ~data.exists
NeverEmpty(all_entries) == FALSE
\* line 140: if not all_entries
EmptyBatch(all_entries) == all_entries = <<>>
CreditsHeaderOwnFile(needs_header, credits) == ~credits.exists
\* line 156: header=needs_header, the decision taken for the primary file
CreditsHeader(needs_header, credits) == needs_header
\* export_data(category, all_entries) on the two files of the category:
\* the files after the call, whether it raised, and the count it logged
\* as dropped (0: nothing logged)
export_data(all_entries, data, credits, mask_is_boolean) ==
    IF EmptyBatch(all_entries)
    THEN [data |-> data, credits |-> credits, raised |-> FALSE, dropped |-> 0, wrote |-> FALSE]
    ELSE IF ExportRaises(all_entries, mask_is_boolean)
    THEN [data |-> data, credits |-> credits, raised |-> TRUE,
          dropped |-> IF HasColumn(DataFrame(all_entries), "id")
                      THEN NullIdCount(DataFrame(all_entries)) ELSE 0,
          wrote |-> FALSE]
    ELSE LET u == unpack_credits(RetainedTable(all_entries, mask_is_boolean))
             df == SerializeJsonColumns(UnwrapKeywords(u.df))
             needs_header == NeedsHeader(data)
         IN  [data |-> ToCsv(df, data, needs_header),
              credits |-> ToCsv(u.credits, credits, CreditsHeader(needs_header, credits)),
              raised |-> FALSE,
              dropped |-> NullIdCount(DataFrame(all_entries)),
              wrote |-> TRUE]

\* ------------------------------------------------------------ inputs
\* What the provider serves.  A person of a credits list, with or without
\* the image path; a detail record with the given id pairs (none, or the
\* id) and credits container.
Person(name, path) ==
    JObj((IF path THEN <<KV("profile_path", JStr(<<"/", name, ".jpg">>))>> ELSE <<>>)
         \o <<KV("name", JStr(<<name>>))>>)
NamedItem(n, name) == JObj(<<KV("id", JInt(n)), KV("name", JStr(<<name>>))>>)
DetailRecord(id_pairs, title, credits) ==
    JObj(<<KV("adult", JBool(FALSE)),
           KV("genres", JList(<<NamedItem(18, "Drama")>>))>>
         \o id_pairs
         \o <<KV("imdb_id", JStr(<<"tt", title>>)),
              KV("production_companies", JList(<<NamedItem(7, "Studio")>>)),
              KV("production_countries", JList(<<>>)),
              KV("spoken_languages", JList(<<>>)),
              KV("title", JStr(<<title>>)),
              KV("credits", credits),
              KV("keywords", JObj(<<KV("keywords", JList(<<NamedItem(9, "space")>>))>>))>>)
CreditsCastOnly ==
    JObj(<<KV("cast", JList(<<Person("A", TRUE)>>)), KV("crew", JList(<<>>))>>)
CreditsNoCast ==
    JObj(<<KV("crew", JList(<<Person("B", FALSE), Person("C", TRUE)>>))>>)
\* the detail record of identifier i
GoodRecord(i) ==
    DetailRecord(<<KV("id", JInt(i))>>, "T",
                 IF i % 2 = 1 THEN CreditsCastOnly ELSE CreditsNoCast)
\* records a batch handed to export_data may hold: two well-formed ones,
\* one with a null id, one with a non-numeric id, one without the id key
RecordKinds ==
    {GoodRecord(1), GoodRecord(2),
     DetailRecord(<<KV("id", JNull)>>, "N", CreditsCastOnly),
     DetailRecord(<<KV("id", JStr(<<"a", "b", "c">>))>>, "S", CreditsNoCast),
     DetailRecord(<<>>, "M", CreditsNoCast)}

\* one line of the daily snapshot
SnapshotEntry(i, title, adult) ==
    JObj(<<KV("adult", JBool(adult)), KV("id", JInt(i)),
           KV("original_title", JStr(title))>>)
PlainSnapshot(n) == [i \in 1..n |-> SnapshotEntry(i, <<"Film">>, FALSE)]
\* the snapshots the provider may publish: identifiers 1..n, possibly
\* followed by a collection and an adult entry, or only those two
FilteredTail ==
    <<SnapshotEntry(98, <<"Saga", " Collection">>, FALSE),
      SnapshotEntry(99, <<"Film">>, TRUE)>>
Snapshots ==
    {PlainSnapshot(n) : n \in 1..MaxIds}
    \cup {PlainSnapshot(MaxIds) \o FilteredTail, FilteredTail}

\* ------------------------------------------------------------ state
VARIABLES
    ids_csv,        \* <category>_ids.csv
    data_csv,       \* <category>_data.csv
    credits_csv,    \* <category>_credits.csv
    pc,             \* where the program is
    runs,           \* how many times the program was started
    id_list,        \* download_ids: the identifiers to download
    existing_ids,   \* download_ids: the table read from <category>_data.csv
    idx,            \* download_ids: position of movie_id in id_list
    counter,        \* download_ids: records downloaded so far
    all_entries,    \* download_ids: the pending batch
    call_url,       \* make_request: the URL requested
    prior_attempts, \* make_request: the attempts made before this one
    current_data,   \* what make_detail_request returned
    statuses,       \* history: the statuses of the GETs of this request
    sleeps,         \* history: the ticks slept after each GET of this request
    fetched,        \* history: the bodies of the status-200 responses of this run
    batches,        \* history: the batches this run passed to export_data
    requested,      \* history: the identifiers this run sent a GET for
    failed,         \* history: the identifiers make_request returned None for
    prev_failed,    \* history: the same, of the run before
    last_export     \* history: the most recent call of export_data

files == <<ids_csv, data_csv, credits_csv>>
loop_vars == <<id_list, existing_ids, idx, counter, all_entries>>
request_vars == <<call_url, prior_attempts, current_data, statuses, sleeps>>
run_history == <<fetched, batches, requested, failed, prev_failed>>
vars == <<files, pc, runs, loop_vars, request_vars, run_history, last_export>>

NoTable == [columns |-> <<>>, rows |-> <<>>]
NoUrl == [category |-> "", entry_id |-> 0, category_specifics |-> ""]
NoExport == [called |-> FALSE]
\* the record of one export_data call: its argument, the files before it
\* and what it answered
ExportRecord(batch, data, credits, out) ==
    [called |-> TRUE, batch |-> batch, pre_data |-> data, pre_credits |-> credits,
     raised |-> out.raised, dropped |-> out.dropped, wrote |-> out.wrote]

Start(at) ==
    /\ ids_csv = NoFile /\ data_csv = NoFile /\ credits_csv = NoFile
    /\ pc = at /\ runs = 0
    /\ id_list = <<>> /\ existing_ids = NoTable /\ idx = 1 /\ counter = 0
    /\ all_entries = <<>>
    /\ call_url = NoUrl /\ prior_attempts = 0 /\ current_data = JNull
    /\ statuses = <<>> /\ sleeps = <<>>
    /\ fetched = <<>> /\ batches = <<>> /\ requested = {} /\ failed = {}
    /\ prev_failed = {}
    /\ last_export = NoExport

\* the program before its first run: no file exists
Init == Start("idle")

\* ------------------------------------------------------------ identifier list
\* download_id_list_as_csv: the snapshot without collections and adult
\* entries, written to <category>_ids.csv
download_id_list_as_csv(snapshot) ==
    LET ids == DataFrame(snapshot)
        NotCollection(r) ==
            ~(PyStr(r["original_title"]) # <<>>
              /\ PyStr(r["original_title"])[Len(PyStr(r["original_title"]))] = " Collection")
        NotAdult(r) == ~r["adult"].b
        a == IF HasColumn(ids, "original_title")
             THEN [ids EXCEPT !.rows = SelectSeq(ids.rows, NotCollection)] ELSE ids
        b == IF HasColumn(a, "adult")
             THEN [a EXCEPT !.rows = SelectSeq(a.rows, NotAdult)] ELSE a
    IN  ToCsv(b, NoFile, TRUE)
\* pd.read_csv(category + '_ids.csv').id.values.tolist()
ReadIds(file) ==
    LET col == ReadCsvColumn(file, "id")
    IN  [i \in 1..Len(col) |-> TextNat(col[i])]
CacheAlwaysMissing(file) == TRUE
\* line 116: not os.path.exists(category + '_ids.csv')
CacheMissing(file) == ~file.exists
\* download_all_data, first half: load_id_list(category)
LoadIdList ==
    /\ pc \in {"idle", "done"}
    /\ runs < MaxRuns
    /\ \E snapshot \in Snapshots :
          LET csv == IF CacheMissing(ids_csv) THEN download_id_list_as_csv(snapshot)
                     ELSE ids_csv
          IN  /\ ids_csv' = csv
              /\ id_list' = ReadIds(csv)
    /\ pc' = "loaded"
    /\ runs' = runs + 1
    /\ UNCHANGED <<data_csv, credits_csv, existing_ids, idx, counter, all_entries,
                   request_vars, run_history, last_export>>

\* ------------------------------------------------------------ download_ids
\* key in DataFrame: whether key is one of the column labels
InTable(key, df) == \E j \in 1..Len(df.columns) : <<df.columns[j]>> = key
\* [x for x in id_list if str(x) not in existing_ids]
PreloadFilter(ids, existing) ==
    LET Keep(x) == ~InTable(PyStr(JInt(x)), existing)
    IN  SelectSeq(ids, Keep)
\* pd.read_csv(category + '_data.csv', usecols=['id'], dtype=object)
ReadExistingIds(file) ==
    LET col == ReadCsvColumn(file, "id")
    IN  [columns |-> <<"id">>,
         rows |-> [i \in 1..Len(col) |-> [c \in {"id"} |-> JStr(col[i])]]]
\* lines 160-166
DownloadIdsBegin ==
    /\ pc = "loaded"
    /\ IF data_csv.exists
       THEN /\ existing_ids' = ReadExistingIds(data_csv)
            /\ id_list' = PreloadFilter(id_list, existing_ids')
       ELSE UNCHANGED <<existing_ids, id_list>>
    /\ counter' = 0
    /\ all_entries' = <<>>
    /\ idx' = 1
    /\ pc' = "loop"
    /\ fetched' = <<>> /\ batches' = <<>> /\ requested' = {} /\ failed' = {}
    /\ prev_failed' = failed
    /\ UNCHANGED <<files, runs, request_vars, last_export>>

MovieIdBackwards(ids, i) == ids[Len(ids) + 1 - i]
\* line 167: for movie_id in id_list, the identifier of iteration i
MovieId(ids, i) == ids[i]
\* make_detail_request: the URL of (category, entry_id)
DetailUrl(category, entry_id) ==
    [category |-> category, entry_id |-> entry_id,
     category_specifics |-> IF category \in DOMAIN CATEGORY_SPECIFIC_CALLS
                            THEN CATEGORY_SPECIFIC_CALLS[category] ELSE ""]
\* line 168, the call: make_request(call_url) with prior_attempts = 0
MakeDetailRequest ==
    /\ pc = "loop"
    /\ idx <= Len(id_list)
    /\ call_url' = DetailUrl(CATEGORIES[1], MovieId(id_list, idx))
    /\ prior_attempts' = 0
    /\ statuses' = <<>>
    /\ sleeps' = <<>>
    /\ pc' = "request"
    /\ UNCHANGED <<files, runs, loop_vars, current_data, run_history, last_export>>

\* ------------------------------------------------------------ make_request
was_successful(status) == status = SUCCESSFUL_CALL_STATUS_CODE
was_rate_limited(status) == status = RATE_LIMIT_EXCEEDED_STATUS_CODE
\* sleep(seconds), in ticks
Ticks(seconds) == seconds * MAX_DOWNLOADS_PER_SECOND
\* lines 64-65
RateLimitSleep(status) ==
    IF was_rate_limited(status) THEN Ticks(RATE_LIMITER_DELAY_SECONDS) ELSE 0
ThrottleSleepIntegerDivision == Ticks(1 \div MAX_DOWNLOADS_PER_SECOND)
\* line 66: sleep(1 / MAX_DOWNLOADS_PER_SECOND)
ThrottleSleep == Ticks(1) \div MAX_DOWNLOADS_PER_SECOND
\* line 70: sleep(1)
RetrySleep(status) == IF was_successful(status) THEN 0 ELSE Ticks(1)
SleepAfterGetInstead(status) ==
    IF was_rate_limited(status) THEN RateLimitSleep(status)
    ELSE ThrottleSleep + RetrySleep(status)
\* the ticks make_request sleeps after one GET
SleepAfterGet(status) == RateLimitSleep(status) + ThrottleSleep + RetrySleep(status)

\* What the server may answer to a GET for entry_id: the detail record or
\* an empty object with status 200, a rate limit, an error.  Beyond the
\* first MaxIds identifiers it answers with the detail record.
Response(status, body) == [status |-> status, body |-> body]
Responses(entry_id) ==
    {Response(SUCCESSFUL_CALL_STATUS_CODE, GoodRecord(entry_id))}
    \cup (IF entry_id <= MaxIds
          THEN {Response(SUCCESSFUL_CALL_STATUS_CODE, JObj(<<>>)),
                Response(RATE_LIMIT_EXCEEDED_STATUS_CODE, JNull)}
               \cup {Response(status, JNull) : status \in OtherStatuses}
          ELSE {})

ExhaustedOffByOne(attempts) == attempts > MAX_ATTEMPTS
\* lines 61-62: the attempts are used up
Exhausted(attempts) == attempts >= MAX_ATTEMPTS
\* make_request returns None; its locals end with the call
MakeRequestExhausted ==
    /\ pc = "request"
    /\ Exhausted(prior_attempts)
    /\ current_data' = JNull
    /\ call_url' = NoUrl
    /\ prior_attempts' = 0
    /\ pc' = "returned"
    /\ UNCHANGED <<files, runs, loop_vars, statuses, sleeps, run_history, last_export>>
\* lines 63-71: one GET, the sleeps after it, and the answer or the retry
MakeRequestGet(response) ==
    /\ pc = "request"
    /\ ~Exhausted(prior_attempts)
    /\ statuses' = Append(statuses, response.status)
    /\ sleeps' = Append(sleeps, SleepAfterGet(response.status))
    /\ requested' = requested \cup {call_url.entry_id}
    /\ IF was_successful(response.status)
       THEN /\ current_data' = response.body
            /\ fetched' = Append(fetched, response.body)
            /\ call_url' = NoUrl
            /\ prior_attempts' = 0
            /\ pc' = "returned"
       ELSE /\ prior_attempts' = prior_attempts + 1
            /\ UNCHANGED <<current_data, fetched, call_url, pc>>
    /\ UNCHANGED <<files, runs, loop_vars, batches, failed, prev_failed, last_export>>

\* ------------------------------------------------------------ the loop
\* line 169: if not current_data
Skipped(data) == ~Truthy(data)
SkipToEnd(i, ids) == Len(ids) + 1
SkipToSame(i, ids) == i
\* lines 170-171: continue with the next identifier
SkipTo(i, ids) == i + 1
\* line 174
DiskWriteDue(n) == n % DOWNLOADS_PER_DISK_WRITE = 0
\* lines 169-177: the rest of one iteration
LoopBody ==
    /\ pc = "returned"
    /\ idx' = IF Skipped(current_data) THEN SkipTo(idx, id_list) ELSE idx + 1
    /\ IF Skipped(current_data)
       THEN /\ failed' = IF current_data = JNull
                         THEN failed \cup {MovieId(id_list, idx)} ELSE failed
            /\ pc' = "loop"
            /\ UNCHANGED <<data_csv, credits_csv, counter, all_entries, batches,
                           last_export>>
       ELSE \E mask_is_boolean \in BOOLEAN :
            LET entries == Append(all_entries, current_data)
                out == export_data(entries, data_csv, credits_csv, mask_is_boolean)
            IN  /\ counter' = counter + 1
                /\ UNCHANGED failed
                /\ IF DiskWriteDue(counter + 1)
                   THEN /\ data_csv' = out.data
                        /\ credits_csv' = out.credits
                        /\ all_entries' = <<>>
                        /\ batches' = Append(batches, entries)
                        /\ last_export' = ExportRecord(entries, data_csv, credits_csv, out)
                        /\ pc' = IF out.raised THEN "crashed" ELSE "loop"
                   ELSE /\ all_entries' = entries
                        /\ pc' = "loop"
                        /\ UNCHANGED <<data_csv, credits_csv, batches, last_export>>
    /\ statuses' = <<>>
    /\ sleeps' = <<>>
    /\ UNCHANGED <<ids_csv, runs, id_list, existing_ids, call_url, prior_attempts,
                   current_data, fetched, requested, prev_failed>>
\* line 178: the export after the loop; download_ids returns
FinalExport ==
    /\ pc = "loop"
    /\ idx > Len(id_list)
    /\ \E mask_is_boolean \in BOOLEAN :
          LET out == export_data(all_entries, data_csv, credits_csv, mask_is_boolean)
          IN  /\ data_csv' = out.data
              /\ credits_csv' = out.credits
              /\ batches' = Append(batches, all_entries)
              /\ last_export' = ExportRecord(all_entries, data_csv, credits_csv, out)
              /\ pc' = IF out.raised THEN "crashed" ELSE "done"
    /\ current_data' = JNull
    /\ UNCHANGED <<ids_csv, runs, loop_vars, call_url, prior_attempts, statuses, sleeps,
                   fetched, requested, failed, prev_failed>>

Next ==
    \/ LoadIdList
    \/ DownloadIdsBegin
    \/ MakeDetailRequest
    \/ MakeRequestExhausted
    \/ \E response \in Responses(call_url.entry_id) : MakeRequestGet(response)
    \/ LoopBody
    \/ FinalExport

Spec == Init /\ [][Next]_vars

\* ------------------------------------------------------------ export_data alone
\* A caller that collects records into a batch and hands it to export_data,
\* while the primary file holds fewer than MaxRecords rows.
InitExport == Start("direct")
Collect(record) ==
    /\ pc = "direct"
    /\ Len(RowLines(data_csv)) + Len(all_entries) < MaxRecords
    /\ all_entries' = Append(all_entries, record)
    /\ last_export' = NoExport
    /\ UNCHANGED <<files, pc, runs, id_list, existing_ids, idx, counter, request_vars,
                   run_history>>
ExportCall ==
    /\ pc = "direct"
    /\ \E mask_is_boolean \in BOOLEAN :
          LET out == export_data(all_entries, data_csv, credits_csv, mask_is_boolean)
          IN  /\ data_csv' = out.data
              /\ credits_csv' = out.credits
              /\ last_export' = ExportRecord(all_entries, data_csv, credits_csv, out)
    /\ all_entries' = <<>>
    /\ UNCHANGED <<ids_csv, pc, runs, id_list, existing_ids, idx, counter, request_vars,
                   run_history>>
NextExport ==
    \/ \E record \in RecordKinds : Collect(record)
    \/ ExportCall
SpecExport == InitExport /\ [][NextExport]_vars

\* ------------------------------------------------------------ the same batch twice
\* A caller that may hand the batch of its last export_data call to
\* export_data once more; the record of that second call keeps the record
\* of the first.
ExportAgain ==
    /\ pc = "direct"
    /\ last_export.called
    /\ "first" \notin DOMAIN last_export
    /\ all_entries = <<>>
    /\ Len(RowLines(data_csv)) + Len(last_export.batch) <= MaxRecords
    /\ \E mask_is_boolean \in BOOLEAN :
          LET out == export_data(last_export.batch, data_csv, credits_csv, mask_is_boolean)
              again == ExportRecord(last_export.batch, data_csv, credits_csv, out)
          IN  /\ data_csv' = out.data
              /\ credits_csv' = out.credits
              /\ last_export' =
                    [f \in DOMAIN again \cup {"first"} |->
                        IF f = "first" THEN last_export ELSE again[f]]
    /\ UNCHANGED <<ids_csv, pc, runs, loop_vars, request_vars, run_history>>
NextTwice ==
    \/ NextExport
    \/ ExportAgain
SpecTwice == InitExport /\ [][NextTwice]_vars

\* ------------------------------------------------------------ files found
\* export_data called when the directory already holds, or lacks, either
\* output file: each file is absent or is what an earlier export of one
\* record wrote.
EarlierExport == export_data(<<GoodRecord(1)>>, NoFile, NoFile, TRUE)
InitFiles ==
    /\ ids_csv = NoFile
    /\ data_csv \in {NoFile, EarlierExport.data}
    /\ credits_csv \in {NoFile, EarlierExport.credits}
    /\ pc = "direct" /\ runs = 0
    /\ id_list = <<>> /\ existing_ids = NoTable /\ idx = 1 /\ counter = 0
    /\ all_entries = <<>>
    /\ call_url = NoUrl /\ prior_attempts = 0 /\ current_data = JNull
    /\ statuses = <<>> /\ sleeps = <<>>
    /\ fetched = <<>> /\ batches = <<>> /\ requested = {} /\ failed = {}
    /\ prev_failed = {}
    /\ last_export = NoExport
SpecFiles == InitFiles /\ [][NextExport]_vars

\* ------------------------------------------------------------ one long run
\* The last run the model follows, over a cached list of LongIds
\* identifiers: <category>_ids.csv was written by an earlier run, no
\* output file exists yet.  The program runs on until it has ended.
InitBatch ==
    /\ ids_csv = download_id_list_as_csv(PlainSnapshot(LongIds))
    /\ data_csv = NoFile /\ credits_csv = NoFile
    /\ pc = "idle" /\ runs = MaxRuns - 1
    /\ id_list = <<>> /\ existing_ids = NoTable /\ idx = 1 /\ counter = 0
    /\ all_entries = <<>>
    /\ call_url = NoUrl /\ prior_attempts = 0 /\ current_data = JNull
    /\ statuses = <<>> /\ sleeps = <<>>
    /\ fetched = <<>> /\ batches = <<>> /\ requested = {} /\ failed = {}
    /\ prev_failed = {}
    /\ last_export = NoExport
\* The program is sequential and runs on: whenever it can take a step it
\* takes one.  Every step of Next changes pc or prior_attempts; Advance is
\* what the steps of Next do to these two, enabled exactly when Next is,
\* and the fairness condition is stated on it.
position == <<pc, prior_attempts>>
Advance ==
    \/ /\ pc \in {"idle", "done"} /\ runs < MaxRuns
       /\ pc' = "loaded" /\ prior_attempts' = prior_attempts
    \/ /\ pc = "loaded"
       /\ pc' = "loop" /\ prior_attempts' = prior_attempts
    \/ /\ pc = "loop" /\ idx <= Len(id_list)
       /\ pc' = "request" /\ prior_attempts' = 0
    \/ /\ pc = "loop" /\ idx > Len(id_list)
       /\ pc' \in {"done", "crashed"} /\ prior_attempts' = prior_attempts
    \/ /\ pc = "request" /\ Exhausted(prior_attempts)
       /\ pc' = "returned" /\ prior_attempts' = 0
    \/ /\ pc = "request" /\ ~Exhausted(prior_attempts)
       /\ \/ pc' = "returned" /\ prior_attempts' = 0
          \/ pc' = "request" /\ prior_attempts' = prior_attempts + 1
    \/ /\ pc = "returned"
       /\ pc' \in {"loop", "crashed"} /\ prior_attempts' = prior_attempts
SpecBatch == InitBatch /\ [][Next]_vars /\ WF_position(Advance)

\* line 63: requests.get raises (connection error, timeout); nothing
\* catches it and the run ends
RequestRaises ==
    /\ pc = "request"
    /\ ~Exhausted(prior_attempts)
    /\ pc' = "aborted"
    /\ UNCHANGED <<files, runs, loop_vars, request_vars, run_history, last_export>>
NextCrash ==
    \/ Next
    \/ RequestRaises
SpecCrash == InitBatch /\ [][NextCrash]_vars

\* ------------------------------------------------------------ properties
RECURSIVE Flatten(_)
Flatten(ss) == IF ss = <<>> THEN <<>> ELSE Head(ss) \o Flatten(Tail(ss))
RECURSIVE Sum(_)
Sum(ns) == IF ns = <<>> THEN 0 ELSE Head(ns) + Sum(Tail(ns))
Count(xs, x) == Cardinality({i \in 1..Len(xs) : xs[i] = x})
\* the records this run has handed to export_data or still holds (inside
\* the loop; the export after the loop does not clear the batch)
Accumulated == Flatten(batches) \o all_entries
\* the texts of the id column the primary file had when this run began
IdsOnDiskAtStart == {existing_ids.rows[k]["id"].s : k \in 1..Len(existing_ids.rows)}
\* the lines a call of export_data appended to a file
Appended(before, after) == SubSeq(after.lines, Len(before.lines) + 1, Len(after.lines))

\* C1: a run sends no GET for an identifier whose string form was in the id
\* column of <category>_data.csv when the run began (so no further row for
\* it is appended).
C1_NoRefetchOfExportedIds ==
    /\ \A i \in requested : IntText(i) \notin IdsOnDiskAtStart
    /\ \A k \in (Len(existing_ids.rows) + 1)..Len(RowLines(data_csv)) :
          RowLines(data_csv)[k].cells[ColumnIndex(data_csv, "id")] \notin IdsOnDiskAtStart

\* C2: make_request issues GETs until the first status 200 or until
\* MAX_ATTEMPTS GETs were made: never more than 3 GETs, none after a 200,
\* every other status uses up one attempt; it returns the body of the 200
\* response, or None when the three responses were all not 200.
C2_BoundedRetry ==
    /\ Len(statuses) <= 3
    /\ \A k \in 1..(Len(statuses) - 1) : statuses[k] # 200
    /\ pc = "request" =>
          /\ \A k \in 1..Len(statuses) : statuses[k] # 200
          /\ prior_attempts = Len(statuses)
    /\ pc = "returned" =>
          IF statuses # <<>> /\ statuses[Len(statuses)] = 200
          THEN current_data = fetched[Len(fetched)]
          ELSE current_data = JNull /\ Len(statuses) = 3
C2_Witness ==
    /\ pc = "returned"
    /\ statuses = <<500, 500, 500>>
    /\ current_data = JNull

\* C3: every 429 response is followed, before the next GET or the return,
\* by the 10 s cooldown on top of the 1/4 s interval and the 1 s backoff
\* (45 ticks); for the responses 429, 200 make_request returns the body of
\* the 200 response having slept at least 10 s (40 ticks).
C3_CooldownIsAdded ==
    /\ \A k \in 1..Len(statuses) : statuses[k] = 429 => sleeps[k] = 40 + 1 + 4
    /\ (pc = "returned" /\ statuses = <<429, 200>>) =>
          /\ current_data = fetched[Len(fetched)]
          /\ Sum(sleeps) >= 40
C3_Witness ==
    /\ pc = "returned"
    /\ statuses = <<429, 200>>
    /\ current_data = GoodRecord(1)
    /\ Sum(sleeps) = 46

\* C4: every GET is followed by a sleep of at least 1/4 s (one tick),
\* whatever the status, before the next GET or the return of make_request.
C4_ThrottleAfterEveryGet ==
    /\ Len(sleeps) = Len(statuses)
    /\ \A k \in 1..Len(sleeps) : sleeps[k] >= 1
C4_Witness ==
    /\ pc = "returned"
    /\ statuses = <<500, 200>>
    /\ sleeps = <<5, 1>>

\* ------------------------------------------------------------ export properties
\* a record whose id is present, not null and numeric
ValidId(r) ==
    /\ HasKey(r, "id")
    /\ ~IsNull(Get(r, "id"))
    /\ IsNumeric(PyStr(Get(r, "id")))
NullOrMissingId(r) == ~HasKey(r, "id") \/ IsNull(Get(r, "id"))
\* the rows the most recent export_data call appended to each file
NewDataRows == SelectSeq(Appended(last_export.pre_data, data_csv), IsRow)
NewCreditsRows == SelectSeq(Appended(last_export.pre_credits, credits_csv), IsRow)

\* C5: one export_data call on a non-empty batch appends to the primary
\* table exactly one row for each record whose id is present, not null and
\* numeric, in batch order, and none for the other records, also when the
\* batch mixes valid and null ids; it logs the number of null ids as
\* dropped, and appends at most one credits row per retained record.
C5_OneRowPerValidId ==
    (last_export.called /\ last_export.batch # <<>>) =>
        LET valid == SelectSeq(last_export.batch, ValidId)
        IN  IF last_export.raised
            THEN valid = <<>> /\ NewDataRows = <<>> /\ NewCreditsRows = <<>>
            ELSE /\ Len(NewDataRows) = Len(valid)
                 /\ \A k \in 1..Len(NewDataRows) :
                       k <= Len(valid) =>
                          NewDataRows[k].cells[ColumnIndex(data_csv, "id")]
                             = PyStr(Get(valid[k], "id"))
                 /\ last_export.dropped
                       = Len(SelectSeq(last_export.batch, NullOrMissingId))
                 /\ Len(NewCreditsRows) <= Len(valid)

Headers(lines) == SelectSeq(lines, IsHeader)
\* C6: after any sequence of export_data calls each of the two files, once
\* it exists, holds its header exactly once, as its first line; a call
\* that writes creates both files, writes the header when the primary file
\* did not exist before and no header when it did.
C6_HeaderExactlyOnce ==
    /\ \A f \in {data_csv, credits_csv} :
          f.exists => /\ HeaderCount(f) = 1
                      /\ IsHeader(f.lines[1])
    /\ data_csv.exists = credits_csv.exists
    /\ (last_export.called /\ last_export.wrote) =>
          /\ data_csv.exists
          /\ Len(Headers(Appended(last_export.pre_data, data_csv)))
                = (IF last_export.pre_data.exists THEN 0 ELSE 1)
          /\ Len(Headers(Appended(last_export.pre_credits, credits_csv)))
                = (IF last_export.pre_credits.exists THEN 0 ELSE 1)
\* a second writing export onto files that already hold rows
C6_Witness ==
    /\ last_export.called
    /\ last_export.wrote
    /\ last_export.pre_data.exists
    /\ RowLines(last_export.pre_data) # <<>>
    /\ NewDataRows # <<>>
    /\ HeaderCount(data_csv) = 1
    /\ HeaderCount(credits_csv) = 1

\* what the cast or crew cell of a record's credits row has to decode to:
\* the list of the credits container (empty when the key is missing), each
\* object without its profile_path pair, the other pairs and the order kept
ExpectedCredits(r, column) ==
    LET container == Get(r, "credits")
        raw == IF HasKey(container, column) THEN Get(container, column).items ELSE <<>>
        NotPath(p) == p.k # "profile_path"
    IN  JList([i \in 1..Len(raw) |-> JObj(SelectSeq(raw[i].pairs, NotPath))])
CreditsCell(row, column) == row.cells[ColumnIndex(credits_csv, column)]
\* C7: every credits row an export_data call appends belongs to a record
\* of the batch (same id text and title), its cast and crew texts decode to
\* that record's credits.cast and credits.crew with profile_path removed
\* from every object, a missing sub-field giving the empty list; there is
\* one credits row per primary row.
C7_CreditsRoundTrip ==
    (last_export.called /\ last_export.wrote) =>
        /\ Len(NewCreditsRows) = Len(NewDataRows)
        /\ \A k \in 1..Len(NewCreditsRows) :
              \E i \in 1..Len(last_export.batch) :
                 LET r == last_export.batch[i]
                 IN  /\ HasKey(r, "id")
                     /\ CreditsCell(NewCreditsRows[k], "movie_id") = PyStr(Get(r, "id"))
                     /\ CreditsCell(NewCreditsRows[k], "title") = PyStr(Get(r, "title"))
                     /\ \A column \in {"cast", "crew"} :
                           JsonLoads(CreditsCell(NewCreditsRows[k], column))
                              = ExpectedCredits(r, column)
\* the documented example: cast [{profile_path, name A}], crew [] gives a cast
\* text that decodes to [{name A}]; and a record without cast gives []
C7_Witness ==
    /\ last_export.called
    /\ last_export.wrote
    /\ last_export.batch = <<GoodRecord(1), GoodRecord(2)>>
    /\ Len(NewCreditsRows) = 2
    /\ JsonLoads(CreditsCell(NewCreditsRows[1], "cast"))
          = JList(<<JObj(<<KV("name", JStr(<<"A">>))>>)>>)
    /\ JsonLoads(CreditsCell(NewCreditsRows[1], "crew")) = JList(<<>>)
    /\ JsonLoads(CreditsCell(NewCreditsRows[2], "cast")) = JList(<<>>)
    /\ Len(JsonLoads(CreditsCell(NewCreditsRows[2], "crew")).items) = 2

\* ------------------------------------------------------------ loop properties
\* the rows this run has appended to the primary file
RowsOfThisRun ==
    SubSeq(RowLines(data_csv), Len(existing_ids.rows) + 1, Len(RowLines(data_csv)))

\* C8: in a run that completes normally the batches passed to export_data
\* are cut at every multiple of 40 successful fetches, followed by one
\* final batch of fewer than 40, and their concatenation is the sequence of
\* the bodies of the status-200 responses in id_list order: every fetched
\* record is passed to export_data exactly once.
C8_EveryFetchedRecordExportedOnce ==
    pc = "done" =>
        /\ batches # <<>>
        /\ \A k \in 1..(Len(batches) - 1) : Len(batches[k]) = DOWNLOADS_PER_DISK_WRITE
        /\ Len(batches[Len(batches)]) < DOWNLOADS_PER_DISK_WRITE
        /\ Flatten(batches) = fetched

\* C9: between two requests the pending batch and the batches already
\* exported hold the body of every status-200 response of the run, whatever
\* its value, and the counter is their number; an identifier was skipped
\* only when make_request returned None.
C9_EveryOkBodyIsAccumulated ==
    pc \in {"loop", "request"} =>
        /\ counter = Len(fetched)
        /\ Accumulated = fetched
        /\ (idx - 1) - counter = Cardinality(failed)

\* C10: an identifier for which make_request returned None leaves no
\* record in the batches and no row in the primary file in this run, the
\* counter counts only the accumulated records, the run still requests
\* every identifier of id_list, and the next run requests the identifiers
\* that failed in the run before.
C10_FailedIdIsSkippedNotMarked ==
    /\ \A i \in failed :
          /\ \A k \in 1..Len(Accumulated) :
                HasKey(Accumulated[k], "id") => Get(Accumulated[k], "id") # JInt(i)
          /\ \A k \in 1..Len(RowsOfThisRun) :
                RowsOfThisRun[k].cells[ColumnIndex(data_csv, "id")] # IntText(i)
    /\ pc \in {"loop", "request"} =>
          /\ counter = Len(Accumulated)
          /\ counter + Cardinality(failed) <= idx - 1
    /\ pc = "done" =>
          /\ SeqToSet(id_list) \subseteq requested
          /\ prev_failed \subseteq requested
\* the second run has ended, it requested an identifier that failed in the
\* first run although a later identifier of the first run succeeded
C10_Witness ==
    /\ pc = "done"
    /\ runs = 2
    /\ prev_failed = {1}
    /\ id_list = <<1, 2>>
    /\ requested = {1, 2}
    /\ failed = {}
    /\ Len(RowLines(data_csv)) > Len(RowsOfThisRun)

\* the identifiers of the first n iterations
IdsUpTo(n) == {id_list[j] : j \in 1..n}
\* C11: the identifiers are requested in id_list order, one at a time: a
\* request is for the identifier at the current position, the identifiers
\* requested so far are exactly those before it (and it, once its first
\* GET was sent), a GET and its sleeps leave the position, the batch and
\* the files alone, the position only moves on by one, after a request has
\* returned, and export_data is called only between requests.
C11_InOrderOneAtATime ==
    /\ [](pc = "request" => call_url.entry_id = id_list[idx])
    /\ [](pc \in {"request", "returned"} =>
             /\ IdsUpTo(idx - 1) \subseteq requested
             /\ requested \subseteq IdsUpTo(idx)
             /\ (statuses # <<>> => id_list[idx] \in requested))
    /\ [](pc = "loop" => requested = IdsUpTo(idx - 1))
    /\ [][Len(statuses') > Len(statuses) =>
             /\ pc = "request"
             /\ requested' = requested \cup {id_list[idx]}
             /\ UNCHANGED <<idx, id_list, counter, all_entries, data_csv, credits_csv,
                            batches, last_export>>]_vars
    /\ [][idx' # idx =>
             \/ pc = "returned" /\ idx' = idx + 1 /\ pc' # "request"
             \/ pc = "loaded" /\ idx' = 1]_vars
    /\ [][(last_export' # last_export \/ Len(batches') > Len(batches)) =>
             /\ pc \in {"returned", "loop"}
             /\ pc' # "request"
             /\ UNCHANGED requested]_vars
\* the second identifier is being retried after the first was dealt with
C11_Witness ==
    /\ pc = "request"
    /\ id_list = <<1, 2>>
    /\ idx = 2
    /\ statuses = <<429, 500>>
    /\ requested = {1, 2}

\* the records of the batches this run has passed to export_data
Exported == Flatten(batches)
\* C12: when a request raises and the run ends, the files are those the
\* last completed export_data call left: the primary and the credits file
\* hold one row for every record of the batches exported before, in order;
\* and every record fetched with status 200 is either in those batches or
\* in the pending batch, so only the pending batch is lost.
C12_CrashLosesOnlyPendingBatch ==
    pc = "aborted" =>
        /\ Len(RowsOfThisRun) = Len(Exported)
        /\ \A k \in 1..Len(RowsOfThisRun) :
              RowsOfThisRun[k].cells[ColumnIndex(data_csv, "id")]
                 = PyStr(Get(Exported[k], "id"))
        /\ Len(RowLines(credits_csv)) = Len(RowLines(data_csv))
        /\ last_export.called =>
              LET out == export_data(last_export.batch, last_export.pre_data,
                                     last_export.pre_credits, TRUE)
              IN  data_csv = out.data /\ credits_csv = out.credits
        /\ fetched = Exported \o all_entries

\* the headers the most recent export_data call appended to each file
NewDataHeaders == Len(Headers(Appended(last_export.pre_data, data_csv)))
NewCreditsHeaders == Len(Headers(Appended(last_export.pre_credits, credits_csv)))
\* C13: an export_data call with a non-empty batch that writes puts a
\* header into the primary file and into the credits file exactly when the
\* primary file did not exist before the call, whether or not the credits
\* file existed.
C13_HeaderDecisionFromPrimaryFile ==
    (last_export.called /\ last_export.batch # <<>> /\ ~last_export.raised) =>
        /\ last_export.wrote
        /\ NewDataHeaders = (IF last_export.pre_data.exists THEN 0 ELSE 1)
        /\ NewCreditsHeaders = (IF last_export.pre_data.exists THEN 0 ELSE 1)
\* the primary file existed and the credits file did not: the credits file
\* is created without a header
C13_Witness ==
    /\ last_export.called
    /\ last_export.wrote
    /\ last_export.pre_data.exists
    /\ ~last_export.pre_credits.exists
    /\ credits_csv.exists
    /\ NewCreditsRows # <<>>
    /\ HeaderCount(credits_csv) = 0

\* C14: an export_data call with an empty batch raises nothing, logs
\* nothing and leaves both files as they were, absent if they were absent;
\* a run that has ended without accumulating a record has made only that
\* call: the primary file has the rows it had when the run began, and after
\* a first such run neither file exists.
C14_EmptyBatchIsNoOp ==
    /\ (last_export.called /\ last_export.batch = <<>>) =>
          /\ ~last_export.raised
          /\ ~last_export.wrote
          /\ last_export.dropped = 0
          /\ data_csv = last_export.pre_data
          /\ credits_csv = last_export.pre_credits
    /\ (pc = "done" /\ counter = 0) =>
          /\ last_export.called
          /\ last_export.batch = <<>>
          /\ batches = <<(<<>>)>>
          /\ Len(RowLines(data_csv)) = Len(existing_ids.rows)
          /\ runs = 1 => (~data_csv.exists /\ ~credits_csv.exists)
\* a second run in which every request failed, after a first run that wrote
C14_Witness ==
    /\ pc = "done"
    /\ runs = 2
    /\ counter = 0
    /\ id_list = <<1, 2>>
    /\ failed = {1, 2}
    /\ last_export.batch = <<>>
    /\ data_csv.exists
    /\ data_csv = last_export.pre_data
    /\ Len(RowLines(data_csv)) = 2

\* the id column of the cache file, as numbers
CachedIds ==
    [i \in 1..Len(RowLines(ids_csv)) |->
        TextNat(RowLines(ids_csv)[i].cells[ColumnIndex(ids_csv, "id")])]
\* C15: <category>_ids.csv is written only by a load_id_list call that
\* finds it absent; once it exists no step changes it, so the snapshot is
\* downloaded at most once; every load_id_list call returns the id column
\* of the cache file, and a call that finds the file returns the column of
\* the unchanged file.
C15_IdListCachedOnce ==
    /\ [][ids_csv' # ids_csv =>
             /\ ~ids_csv.exists
             /\ pc \in {"idle", "done"}
             /\ pc' = "loaded"]_vars
    /\ [][ids_csv.exists => ids_csv' = ids_csv]_vars
    /\ [](pc = "loaded" => ids_csv.exists /\ id_list = CachedIds)
    /\ [][(pc' = "loaded" /\ pc # "loaded" /\ ids_csv.exists) =>
             /\ ids_csv' = ids_csv
             /\ id_list' = CachedIds]_vars
    /\ [](runs >= 1 => ids_csv.exists)
\* the second call: the cache exists, the list is read from it
C15_Witness ==
    /\ pc = "loaded"
    /\ runs = 2
    /\ ids_csv.exists
    /\ id_list = <<1, 2>>
    /\ id_list = CachedIds

\* the most recent export_data call repeated the batch of the call before
ExportedTwice == last_export.called /\ "first" \in DOMAIN last_export
AllValid(batch) == \A i \in 1..Len(batch) : ValidId(batch[i])
RowsBetween(before, after) == SelectSeq(Appended(before, after), IsRow)
\* C16: when export_data is called a second time with the same non-empty
\* batch of records with valid ids, the second call appends to both files
\* rows equal to those the first call appended, one per record, leaves
\* every line written before in place, and writes no header (the first
\* call wrote one exactly when the primary file did not exist).
C16_SameBatchTwiceDuplicatesRows ==
    (ExportedTwice /\ last_export.batch # <<>> /\ AllValid(last_export.batch)) =>
        LET first == last_export.first
        IN  /\ ~first.raised /\ ~last_export.raised
            /\ Len(NewDataRows) = Len(last_export.batch)
            /\ NewDataRows = RowsBetween(first.pre_data, last_export.pre_data)
            /\ NewCreditsRows = RowsBetween(first.pre_credits, last_export.pre_credits)
            /\ SubSeq(data_csv.lines, 1, Len(last_export.pre_data.lines))
                  = last_export.pre_data.lines
            /\ SubSeq(credits_csv.lines, 1, Len(last_export.pre_credits.lines))
                  = last_export.pre_credits.lines
            /\ NewDataHeaders = 0
            /\ NewCreditsHeaders = 0
            /\ Len(Headers(Appended(first.pre_data, last_export.pre_data)))
                  = (IF first.pre_data.exists THEN 0 ELSE 1)
\* the same record exported twice into fresh files: one header, two equal rows
C16_Witness ==
    /\ ExportedTwice
    /\ last_export.batch = <<GoodRecord(1)>>
    /\ ~last_export.first.pre_data.exists
    /\ HeaderCount(data_csv) = 1
    /\ Len(RowLines(data_csv)) = 2
    /\ RowLines(data_csv)[1] = RowLines(data_csv)[2]
    /\ Len(RowLines(credits_csv)) = 2
    /\ RowLines(credits_csv)[1] = RowLines(credits_csv)[2]

\* C17: from no output file on, after any sequence of export_data calls
\* the two files exist together and hold the same number of rows, and the
\* movie_id of the n-th credits row is the id of the n-th primary row.
C17_CreditsRowsAlignWithDataRows ==
    /\ credits_csv.exists = data_csv.exists
    /\ Len(RowLines(credits_csv)) = Len(RowLines(data_csv))
    /\ \A n \in 1..Len(RowLines(data_csv)) :
          RowLines(credits_csv)[n].cells[ColumnIndex(credits_csv, "movie_id")]
             = RowLines(data_csv)[n].cells[ColumnIndex(data_csv, "id")]
\* three rows written by two calls, the second row being that of id 2
C17_Witness ==
    /\ last_export.called
    /\ last_export.wrote
    /\ Len(RowLines(last_export.pre_data)) = 2
    /\ Len(RowLines(data_csv)) = 3
    /\ Len(RowLines(credits_csv)) = 3
    /\ RowLines(data_csv)[2].cells[ColumnIndex(data_csv, "id")] = <<"2">>
    /\ RowLines(credits_csv)[2].cells[ColumnIndex(credits_csv, "movie_id")] = <<"2">>

\* the batches flushed inside the loop: all but the one of the final export
FlushedInLoop == IF pc = "done" THEN SubSeq(batches, 1, Len(batches) - 1) ELSE batches
\* C18: between two requests and during a request the pending batch holds
\* counter mod 40 records, never more than 40; every batch flushed inside
\* the loop holds 40 records and the final one at most 39; while a request
\* is in progress at most 39 of the records fetched with status 200 have
\* not been passed to export_data.
C18_PendingBatchIsCounterMod40 ==
    /\ pc \in {"loop", "request"} =>
          Len(all_entries) = counter % DOWNLOADS_PER_DISK_WRITE
    /\ Len(all_entries) <= DOWNLOADS_PER_DISK_WRITE
    /\ \A k \in 1..Len(FlushedInLoop) : Len(FlushedInLoop[k]) = DOWNLOADS_PER_DISK_WRITE
    /\ pc = "done" => Len(batches[Len(batches)]) <= DOWNLOADS_PER_DISK_WRITE - 1
    /\ pc = "request" => Len(fetched) - Len(Exported) <= DOWNLOADS_PER_DISK_WRITE - 1

\* C19: a run that has loaded its id_list ends; each request is started
\* once per position, from the loop, for a position within id_list, and
\* has sent at least one and at most MAX_ATTEMPTS GETs when it returns;
\* when the run has ended every position was passed, every identifier of
\* id_list was requested, and export_data was called after the last one.
C19_RunTerminatesWithBoundedGets ==
    /\ (pc = "loaded") ~> (pc = "done")
    /\ [](Len(statuses) <= MAX_ATTEMPTS)
    /\ [](pc = "returned" => Len(statuses) >= 1)
    /\ [][(pc' = "request" /\ pc # "request") =>
             /\ pc = "loop"
             /\ idx <= Len(id_list)
             /\ idx' = idx
             /\ statuses' = <<>>]_vars
    /\ [][(pc = "returned" /\ pc' # "returned") => idx' = idx + 1]_vars
    /\ [](pc = "done" =>
             /\ idx = Len(id_list) + 1
             /\ requested = SeqToSet(id_list)
             /\ last_export.called
             /\ batches # <<>>
             /\ last_export.batch = batches[Len(batches)])
\* a long run has ended although the requests for two identifiers failed
C19_Witness ==
    /\ pc = "done"
    /\ Len(id_list) = LongIds
    /\ failed = {1, 2}
    /\ requested = SeqToSet(id_list)
    /\ Len(batches) = 2
    /\ last_export.called

====
